---- MODULE Spec2Model ----
(***************************************************************************)
(* Wire codec of the Athena federation client: the Block codec, the Schema *)
(* descriptor codec and the request/response envelopes.                    *)
(*                                                                         *)
(* Byte buffers are sequences of bytes (0..255) addressed from offset 0.   *)
(* A base64 string is the sequence of its symbols: 0..63 are the symbols   *)
(* of the standard alphabet, 64 is the padding '=' and 65 is a character   *)
(* outside the alphabet.  A Rust panic is the value PANIC: it is an        *)
(* outcome of an operation, distinct from the operation's Ok and Err.      *)
(***************************************************************************)
EXTENDS Integers, Sequences, FiniteSets, TLC

PANIC == [tag |-> "Panic"]
IsPanic(r) == r.tag = "Panic"

\* Option<T>
None == [tag |-> "None"]
Some(x) == [tag |-> "Some", v |-> x]

(***************************************************************************)
(* Little-endian scalar reads, as flatbuffers' read_scalar does them.      *)
(* Every buffer of the model is far shorter than FarOffset, so a scalar    *)
(* with a high byte set is read as FarOffset: it is out of range of every  *)
(* buffer, as the exact value would be.                                    *)
(***************************************************************************)
FarOffset == 65536

InRange(buf, loc, n) == loc >= 0 /\ loc + n <= Len(buf)

U8(buf, loc) == buf[loc + 1]

U16(buf, loc) == buf[loc + 1] + 256 * buf[loc + 2]

U32(buf, loc) ==
  IF buf[loc + 3] = 0 /\ buf[loc + 4] = 0 THEN U16(buf, loc) ELSE FarOffset

I32(buf, loc) ==
  IF buf[loc + 3] = 0 /\ buf[loc + 4] = 0 THEN U16(buf, loc)
  ELSE IF buf[loc + 3] = 255 /\ buf[loc + 4] = 255 THEN U16(buf, loc) - 65536
  ELSE IF buf[loc + 4] < 128 THEN FarOffset ELSE 0 - FarOffset

I64(buf, loc) ==
  IF \A i \in 3..8 : buf[loc + i] = 0 THEN U16(buf, loc)
  ELSE IF \A i \in 3..8 : buf[loc + i] = 255 THEN U16(buf, loc) - 65536
  ELSE IF buf[loc + 8] < 128 THEN FarOffset ELSE 0 - FarOffset

\* buf[from..], the slice the code takes with &buf[from..]; the caller
\* checks from <= Len(buf), where Rust panics otherwise.
SliceFrom(buf, from) == SubSeq(buf, from + 1, Len(buf))

(***************************************************************************)
(* base64::decode with the standard alphabet.  A character outside the     *)
(* alphabet, padding in the first two places of a quad or followed by a    *)
(* symbol, one symbol left over, or non-zero trailing bits are errors.     *)
(***************************************************************************)
PadSym == 64

IsSym(c) == c >= 0 /\ c < PadSym

RECURSIVE StripPad(_)
StripPad(s) ==
  IF Len(s) > 0 /\ s[Len(s)] = PadSym THEN StripPad(SubSeq(s, 1, Len(s) - 1))
  ELSE s

RECURSIVE DecodeQuads(_)
DecodeQuads(s) ==
  IF Len(s) = 0 THEN <<>>
  ELSE IF Len(s) = 2 THEN <<s[1] * 4 + s[2] \div 16>>
  ELSE IF Len(s) = 3
    THEN <<s[1] * 4 + s[2] \div 16, (s[2] % 16) * 16 + s[3] \div 4>>
  ELSE <<s[1] * 4 + s[2] \div 16, (s[2] % 16) * 16 + s[3] \div 4,
         (s[3] % 4) * 64 + s[4]>> \o DecodeQuads(SubSeq(s, 5, Len(s)))

base64_decode(s) ==
  LET body == StripPad(s)
      npad == Len(s) - Len(body)
      rem  == Len(body) % 4
  IN IF \E i \in 1..Len(body) : ~IsSym(body[i]) THEN [tag |-> "Err"]
     ELSE IF rem = 1 THEN [tag |-> "Err"]
     ELSE IF npad > 0 /\ (rem = 0 \/ npad > 4 - rem) THEN [tag |-> "Err"]
     ELSE IF rem = 2 /\ body[Len(body)] % 16 # 0 THEN [tag |-> "Err"]
     ELSE IF rem = 3 /\ body[Len(body)] % 4 # 0 THEN [tag |-> "Err"]
     ELSE [tag |-> "Ok", v |-> DecodeQuads(body)]

(***************************************************************************)
(* The accessors of arrow's generated Message table over an unverified     *)
(* flatbuffer.  A read outside the buffer is a slice panic.                *)
(***************************************************************************)
SIZE_PREFIX == 4
VT_HEADER_TYPE == 6
VT_HEADER == 8
VT_BODYLENGTH == 10
MessageHeader_NONE == 0
MessageHeader_Schema == 1
MessageHeader_RecordBatch == 3

\* ipc::get_size_prefixed_root_as_message: skip the 4-byte size prefix,
\* follow the root offset found behind it.  The value is the root table's
\* location, not yet read.
get_size_prefixed_root_as_message(buf) ==
  IF ~InRange(buf, SIZE_PREFIX, 4) THEN PANIC
  ELSE [tag |-> "Msg", loc |-> SIZE_PREFIX + U32(buf, SIZE_PREFIX)]

\* Table::get's offset lookup: the table's vtable is at loc - soffset, a
\* slot beyond the vtable's length is an absent field (offset 0).
vtable_get(buf, loc, slot) ==
  IF ~InRange(buf, loc, 4) THEN PANIC
  ELSE LET vt == loc - I32(buf, loc) IN
    IF ~InRange(buf, vt, 2) THEN PANIC
    ELSE IF slot + 2 > U16(buf, vt) THEN [tag |-> "Ok", v |-> 0]
    ELSE IF ~InRange(buf, vt + slot, 2) THEN PANIC
    ELSE [tag |-> "Ok", v |-> U16(buf, vt + slot)]

\* Message::header_type(): the header's union tag, NONE when absent.
header_type(buf, loc) ==
  LET o == vtable_get(buf, loc, VT_HEADER_TYPE) IN
    IF IsPanic(o) THEN PANIC
    ELSE IF o.v = 0 THEN [tag |-> "Ok", v |-> MessageHeader_NONE]
    ELSE IF ~InRange(buf, loc + o.v, 1) THEN PANIC
    ELSE [tag |-> "Ok", v |-> U8(buf, loc + o.v)]

\* Message::header(): the location of the union's table, None when absent.
header(buf, loc) ==
  LET o == vtable_get(buf, loc, VT_HEADER) IN
    IF IsPanic(o) THEN PANIC
    ELSE IF o.v = 0 THEN [tag |-> "None"]
    ELSE IF ~InRange(buf, loc + o.v, 4) THEN PANIC
    ELSE [tag |-> "Some", loc |-> loc + o.v + U32(buf, loc + o.v)]

\* Message::bodyLength(): an i64, 0 when absent.
bodyLength(buf, loc) ==
  LET o == vtable_get(buf, loc, VT_BODYLENGTH) IN
    IF IsPanic(o) THEN PANIC
    ELSE IF o.v = 0 THEN [tag |-> "Ok", v |-> 0]
    ELSE IF ~InRange(buf, loc + o.v, 8) THEN PANIC
    ELSE [tag |-> "Ok", v |-> I64(buf, loc + o.v)]

\* ipc::convert::fb_to_schema over the Schema table at h.  The table is
\* abstracted to a field count followed by one type code per field; the
\* typed schema is the sequence of the type codes.
fb_to_schema(buf, h) ==
  IF ~InRange(buf, h, 1) THEN PANIC
  ELSE IF ~InRange(buf, h + 1, U8(buf, h)) THEN PANIC
  ELSE [tag |-> "Ok", v |-> [i \in 1..U8(buf, h) |-> U8(buf, h + i)]]


\* arrow::ipc::reader::read_record_batch over the RecordBatch table at h,
\* the body and the typed schema ss.  The table is abstracted to a node
\* count followed by one node length per column; a column of length n takes
\* the next n bytes of the body.  Reading a node or a buffer outside its
\* slice panics; RecordBatch::try_new refuses no column at all and columns
\* of different lengths.
NodeLen(buf, h, i) == U8(buf, h + i)

RECURSIVE SumLens(_, _, _)
SumLens(buf, h, k) ==
  IF k = 0 THEN 0 ELSE NodeLen(buf, h, k) + SumLens(buf, h, k - 1)

\* read_record_batch building one column per node of the message instead
\* of one per field of the schema.
read_record_batch_by_nodes(body, buf, h, ss) ==
  LET n == U8(buf, h) IN
    IF ~InRange(buf, h, 1 + n) THEN PANIC
    ELSE IF SumLens(buf, h, n) > Len(body) THEN PANIC
    ELSE IF n = 0 THEN [tag |-> "Err"]
    ELSE [tag |-> "Ok",
          v |-> [schema   |-> ss,
                 columns  |-> [i \in 1..n |->
                                SubSeq(body, SumLens(buf, h, i - 1) + 1,
                                       SumLens(buf, h, i))],
                 num_rows |-> NodeLen(buf, h, 1)]]

read_record_batch(body, buf, h, ss) ==
  LET n == Len(ss) IN
    IF ~InRange(buf, h, 1 + n) THEN PANIC
    ELSE IF SumLens(buf, h, n) > Len(body) THEN PANIC
    ELSE IF n = 0 THEN [tag |-> "Err"]
    ELSE IF \E i \in 1..n : NodeLen(buf, h, i) # NodeLen(buf, h, 1)
      THEN [tag |-> "Err"]
    ELSE [tag |-> "Ok",
          v |-> [schema   |-> ss,
                 columns  |-> [i \in 1..n |->
                                SubSeq(body, SumLens(buf, h, i - 1) + 1,
                                       SumLens(buf, h, i))],
                 num_rows |-> NodeLen(buf, h, 1)]]

(***************************************************************************)
(* JSON values.  An object is a function from its keys; a string is        *)
(* JStr(s), where s is a base64 symbol sequence or a TLA+ string.          *)
(***************************************************************************)
JStr(s) == [t |-> "string", v |-> s]
JNull == [t |-> "null"]
JNumber == [t |-> "number"]

IsJStr(j) == j.t = "string"

\* serde_json::Value::get on an object.
Get(json, k) ==
  IF k \in DOMAIN json THEN [tag |-> "Some", v |-> json[k]]
  ELSE [tag |-> "None"]

(***************************************************************************)
(* models.rs: Schema                                                       *)
(***************************************************************************)
\* Schema::new_from_string
new_from_string(str) == [schema |-> str, arrow_schema |-> [tag |-> "None"]]

\* Lines 114-125 of Schema::get_schema: the dual framing parse of the
\* decoded bytes.  skipped records whether the 4-byte skip was applied.
ParseSchemaMessage(bytes) ==
  LET fbs0 == get_size_prefixed_root_as_message(bytes) IN
    IF IsPanic(fbs0) THEN PANIC
    ELSE LET ht0 == header_type(bytes, fbs0.loc) IN
      IF IsPanic(ht0) THEN PANIC
      ELSE LET skip == ht0.v = MessageHeader_NONE
               buf  == IF skip THEN SliceFrom(bytes, 4) ELSE bytes
               fbs  == IF skip THEN get_size_prefixed_root_as_message(buf)
                       ELSE fbs0
           IN IF skip /\ Len(bytes) < 4 THEN PANIC
              ELSE IF IsPanic(fbs) THEN PANIC
              ELSE LET ht == header_type(buf, fbs.loc) IN
                IF IsPanic(ht) THEN PANIC
                ELSE IF ht.v # MessageHeader_Schema THEN [tag |-> "None"]
                ELSE LET hd == header(buf, fbs.loc) IN
                  IF IsPanic(hd) \/ hd.tag = "None" THEN PANIC
                  ELSE LET ss == fb_to_schema(buf, hd.loc) IN
                    IF IsPanic(ss) THEN PANIC
                    ELSE [tag |-> "Some", v |-> ss.v, skipped |-> skip]

\* Schema::get_schema without the test for a cached schema: every call
\* decodes.
get_schema_uncached(self) ==
  LET res == base64_decode(self.schema) IN
    IF res.tag = "Err"
      THEN [tag |-> "Return", self |-> self, ret |-> [tag |-> "None"],
            decodes |-> 1, parses |-> 0]
    ELSE LET p == ParseSchemaMessage(res.v) IN
      IF IsPanic(p) THEN PANIC
      ELSE IF p.tag = "None"
        THEN [tag |-> "Return", self |-> self, ret |-> [tag |-> "None"],
              decodes |-> 1, parses |-> 1]
      ELSE [tag |-> "Return",
            self |-> [self EXCEPT !.arrow_schema = [tag |-> "Some", v |-> p.v]],
            ret |-> [tag |-> "Some", v |-> p.v],
            decodes |-> 1, parses |-> 1]

\* Schema::get_schema(&mut self): the value is the outcome (Return or
\* Panic), the descriptor afterwards, the returned Option, and how many
\* base64 decodes and binary parses the call performed.
get_schema(self) ==
  IF self.arrow_schema.tag = "Some"
    THEN [tag |-> "Return", self |-> self, ret |-> self.arrow_schema,
          decodes |-> 0, parses |-> 0]
  ELSE LET res == base64_decode(self.schema) IN
    IF res.tag = "Err"
      THEN [tag |-> "Return", self |-> self, ret |-> [tag |-> "None"],
            decodes |-> 1, parses |-> 0]
    ELSE LET p == ParseSchemaMessage(res.v) IN
      IF IsPanic(p) THEN PANIC
      ELSE IF p.tag = "None"
        THEN [tag |-> "Return", self |-> self, ret |-> [tag |-> "None"],
              decodes |-> 1, parses |-> 1]
      ELSE [tag |-> "Return",
            self |-> [self EXCEPT !.arrow_schema = [tag |-> "Some", v |-> p.v]],
            ret |-> [tag |-> "Some", v |-> p.v],
            decodes |-> 1, parses |-> 1]

\* #[derive(Serialize)] for Schema: arrow_schema is skip_serializing.
SerializeSchema(self) == [k \in {"schema"} |-> JStr(self.schema)]

(***************************************************************************)
(* models.rs: Block                                                        *)
(***************************************************************************)
\* decode_value
decode_value(v) ==
  IF v.tag = "Some" /\ IsJStr(v.v)
    THEN LET d == base64_decode(v.v.v) IN
           IF d.tag = "Ok" THEN [tag |-> "Some", v |-> d.v]
           ELSE [tag |-> "None"]
  ELSE [tag |-> "None"]

\* Block::new with its two encoded strings taken in the other order.
Block_new_swapped(records, schema_str, records_str, a_id) ==
  [records |-> records,
   serialized |-> [schema |-> records_str, records |-> schema_str,
                   a_id |-> a_id]]

\* Block::new
Block_new(records, schema_str, records_str, a_id) ==
  [records |-> records,
   serialized |-> [schema |-> schema_str, records |-> records_str,
                   a_id |-> a_id]]

\* Option<&Value>::unwrap().as_str().unwrap()
UnwrapStr(v) ==
  IF v.tag = "Some" /\ IsJStr(v.v) THEN [tag |-> "Ok", v |-> v.v.v] ELSE PANIC

\* D::Error::custom: the one message of every decode failure.
DecodeErr == [tag |-> "Err", msg |-> "Missing field schema in Block"]

\* Lines 198-232 of Block::deserialize, with both buffers decoded.
DeserializeBuffers(helper, schema, records) ==
  IF Len(schema) < 4 \/ Len(records) < 4 THEN PANIC
  ELSE LET sbuf == SliceFrom(schema, 4)
           rbuf == SliceFrom(records, 4)
           fbs_schema  == get_size_prefixed_root_as_message(sbuf)
           fbs_records == get_size_prefixed_root_as_message(rbuf)
       IN
    IF IsPanic(fbs_schema) \/ IsPanic(fbs_records) THEN PANIC
    ELSE LET sht == header_type(sbuf, fbs_schema.loc) IN
      IF IsPanic(sht) THEN PANIC
      ELSE IF sht.v # MessageHeader_Schema THEN DecodeErr
      ELSE LET shd == header(sbuf, fbs_schema.loc) IN
        IF IsPanic(shd) THEN PANIC
        ELSE IF shd.tag = "None" THEN DecodeErr
        ELSE LET ss == fb_to_schema(sbuf, shd.loc) IN
          IF IsPanic(ss) THEN PANIC
          ELSE LET rht == header_type(rbuf, fbs_records.loc) IN
            IF IsPanic(rht) THEN PANIC
            ELSE IF rht.v # MessageHeader_RecordBatch THEN DecodeErr
            ELSE LET bl == bodyLength(rbuf, fbs_records.loc) IN
              IF IsPanic(bl) THEN PANIC
              ELSE LET rhd == header(rbuf, fbs_records.loc) IN
                IF IsPanic(rhd) THEN PANIC
                ELSE IF rhd.tag = "None" THEN DecodeErr
                ELSE IF bl.v < 0 \/ bl.v > Len(records) THEN PANIC
                ELSE LET x == read_record_batch(
                                SliceFrom(records, Len(records) - bl.v),
                                rbuf, rhd.loc, ss.v) IN
                  IF IsPanic(x) THEN PANIC
                  ELSE IF x.tag = "Err" THEN DecodeErr
                  ELSE LET s == UnwrapStr(Get(helper, "schema"))
                           r == UnwrapStr(Get(helper, "records"))
                           a == UnwrapStr(Get(helper, "aId"))
                       IN IF IsPanic(a) THEN PANIC
                          ELSE [tag |-> "Ok",
                                v |-> Block_new(x.v, s.v, r.v, a.v)]

\* impl Deserialize for Block
Block_deserialize(helper) ==
  LET schema  == decode_value(Get(helper, "schema"))
      records == decode_value(Get(helper, "records"))
  IN IF schema.tag = "Some" /\ records.tag = "Some"
       THEN DeserializeBuffers(helper, schema.v, records.v)
     ELSE DecodeErr

\* impl Serialize for Block
Block_serialize(self) ==
  [k \in {"schema", "records", "aId"} |->
     IF k = "schema" THEN JStr(self.serialized.schema)
     ELSE IF k = "records" THEN JStr(self.serialized.records)
     ELSE JStr(self.serialized.a_id)]


(***************************************************************************)
(* The encodings the remote side produces, after the test vectors of       *)
(* models.rs: a Message flatbuffer (root offset, vtable, table, header     *)
(* table, trailing name strings), framed either with the legacy 4-byte     *)
(* size prefix or with the current continuation marker and size prefix,    *)
(* and padded to 8 bytes.                                                  *)
(***************************************************************************)
Zeros(k) == [i \in 1..k |-> 0]

PadTo(b, m) == b \o Zeros((m - (Len(b) % m)) % m)

LE16(n) == <<n % 256, n \div 256>>

LE32(n) == LE16(n) \o <<0, 0>>

LE64(n) ==
  IF n >= 0 THEN LE16(n) \o Zeros(6)
  ELSE LE16(n + 65536) \o <<255, 255, 255, 255, 255, 255>>

\* A Message whose header is a Schema table: root offset 16, the vtable at
\* 6 (version at 6, header_type at 13, header at 8), the table at 16, the
\* Schema table at 32, the field names behind it.
SchemaMessage(ht, fields, names) ==
  <<16, 0, 0, 0, 0, 0, 10, 0, 14, 0, 6, 0, 13, 0, 8, 0,
    10, 0, 0, 0, 0, 0, 3, 0, 8, 0, 0, 0, 0, ht, 0, 0>>
  \o PadTo(<<Len(fields)>> \o fields, 4) \o names

\* A Message whose header is a RecordBatch table: root offset 20, the
\* vtable at 8 (version at 14, header_type at 21, header at 16, bodyLength
\* at 4), the table at 20, the RecordBatch table at 44.
RecordBatchMessage(ht, lens, bl) ==
  PadTo(<<20, 0, 0, 0, 0, 0, 0, 0, 12, 0, 22, 0, 14, 0, 21, 0, 16, 0, 4, 0,
          12, 0, 0, 0>> \o LE64(bl)
        \o <<0, 0, 3, 0, 8, 0, 0, 0, 0, ht, 0, 0>>
        \o <<Len(lens)>> \o lens, 8)

ContinuationMarker == <<255, 255, 255, 255>>

FrameCurrent(fb) == ContinuationMarker \o LE32(Len(PadTo(fb, 8))) \o PadTo(fb, 8)

FrameLegacy(fb) ==
  LET pad == (8 - ((4 + Len(fb)) % 8)) % 8
  IN LE32(Len(fb) + pad) \o fb \o Zeros(pad)

RECURSIVE base64_encode(_)
base64_encode(b) ==
  IF Len(b) = 0 THEN <<>>
  ELSE IF Len(b) = 1 THEN <<b[1] \div 4, (b[1] % 4) * 16, PadSym, PadSym>>
  ELSE IF Len(b) = 2
    THEN <<b[1] \div 4, (b[1] % 4) * 16 + b[2] \div 16, (b[2] % 16) * 4,
           PadSym>>
  ELSE <<b[1] \div 4, (b[1] % 4) * 16 + b[2] \div 16,
         (b[2] % 16) * 4 + b[3] \div 64, b[3] % 64>>
       \o base64_encode(SubSeq(b, 4, Len(b)))


(***************************************************************************)
(* The inputs of the model: column schemas, record batches, their          *)
(* encodings and damaged variants of them.                                 *)
(***************************************************************************)
MaxRows == 2

\* Type codes of arrow's Type union: Int = 2, Utf8 = 5.  The second schema
\* is the one of the CloudWatch test vector (log_group, log_stream_bytes,
\* log_stream).
ColumnSchemas == {<<5>>, <<5, 2, 5>>}

\* The bytes behind the Schema table: "am\0\0" leaves the flatbuffer a
\* multiple of 8 bytes long, "stream\0\0" leaves it 4 bytes short of one.
NameTails == {<<97, 109, 0, 0>>, <<115, 116, 114, 101, 97, 109, 0, 0>>}

SchemaMessages ==
  {SchemaMessage(MessageHeader_Schema, f, n) :
     f \in ColumnSchemas, n \in NameTails}

CurrentSchemaBuffers == {FrameCurrent(m) : m \in SchemaMessages}

LegacySchemaBuffers == {FrameLegacy(m) : m \in SchemaMessages}

\* The encoding of the schema ss with the name bytes n, and whether it has
\* the leading continuation marker.
EncodedSchema(ss, n, current) ==
  LET m == SchemaMessage(MessageHeader_Schema, ss, n)
  IN base64_encode(IF current THEN FrameCurrent(m) ELSE FrameLegacy(m))

Truncations(b) == {SubSeq(b, 1, k) : k \in {0, 3, 4, 11, 40} \cap 0..Len(b)}

\* A record batch of k columns and r rows; its body is one byte per value.
ColumnData(k, r) == PadTo([i \in 1..(k * r) |-> i], 8)

RecordsBuffer(ht, lens, bl, body) ==
  FrameCurrent(RecordBatchMessage(ht, lens, bl)) \o body

GoodRecordsBuffer(k, r) ==
  RecordsBuffer(MessageHeader_RecordBatch, [i \in 1..k |-> r],
                Len(ColumnData(k, r)), ColumnData(k, r))

GoodRecordsBuffers ==
  {GoodRecordsBuffer(Len(f), r) : f \in ColumnSchemas, r \in 1..MaxRows}

\* The same batch behind four zero bytes instead of the marker.
UnmarkedRecordsBuffers == {Zeros(4) \o SliceFrom(b, 4) : b \in GoodRecordsBuffers}

DamagedRecordsBuffers ==
  LET body == ColumnData(3, 1) IN
    { RecordsBuffer(MessageHeader_RecordBatch, <<1, 1, 1>>, 200, body),
      RecordsBuffer(MessageHeader_RecordBatch, <<1, 1, 1>>, 0 - 8, body),
      RecordsBuffer(MessageHeader_RecordBatch, <<1, 1, 1>>, 0, body),
      RecordsBuffer(MessageHeader_RecordBatch, <<1, 2, 1>>, 8, body),
      RecordsBuffer(MessageHeader_Schema, <<1, 1, 1>>, 8, body) }
    \cup Truncations(GoodRecordsBuffer(3, 1))

DamagedSchemaBuffers ==
  { FrameCurrent(SchemaMessage(MessageHeader_RecordBatch, <<5, 2, 5>>,
                               <<97, 109, 0, 0>>)),
    FrameLegacy(SchemaMessage(MessageHeader_RecordBatch, <<5, 2, 5>>,
                              <<97, 109, 0, 0>>)),
    Zeros(16) }
  \cup Truncations(FrameCurrent(SchemaMessage(MessageHeader_Schema, <<5, 2, 5>>,
                                              <<97, 109, 0, 0>>)))

\* Strings that are no base64: a character outside the alphabet, a single
\* symbol left over.
NotBase64 == {<<16, 65, 0, 0>>, <<16, 0, 0, 0, 16>>}

SchemaStrings ==
  {base64_encode(b) :
     b \in CurrentSchemaBuffers \cup LegacySchemaBuffers \cup DamagedSchemaBuffers}
  \cup NotBase64

RecordsStrings ==
  {base64_encode(b) :
     b \in GoodRecordsBuffers \cup UnmarkedRecordsBuffers \cup DamagedRecordsBuffers}
  \cup NotBase64

\* The values a carrier can hold under a key: a string, a non-string, or
\* nothing (the key is absent).
Absent == [t |-> "absent"]

FieldValues(strings) == {JStr(x) : x \in strings} \cup {JNumber, Absent}

Object(keys, val(_)) ==
  [k \in {k \in keys : val(k) # Absent} |-> val(k)]

Carrier(s, r, a) ==
  LET val(k) == IF k = "schema" THEN s ELSE IF k = "records" THEN r ELSE a
  IN Object({"schema", "records", "aId"}, val)

Carriers ==
  {Carrier(s, r, a) : s \in FieldValues(SchemaStrings),
                      r \in FieldValues(RecordsStrings),
                      a \in FieldValues({"52fb8f5f"})}


(***************************************************************************)
(* models.rs and requests.rs: the envelopes.  A request or response value  *)
(* is a record; variant names its Rust type.                               *)
(***************************************************************************)
JObj(f) == [t |-> "object", v |-> f]
JArr(q) == [t |-> "array", v |-> q]

\* class_type_def!: stringify!($x) of the type the macro is applied to.
class_type_def(variant) == variant

\* FederatedIdentity::default
FederatedIdentity_default ==
  [id |-> "UNKNOWN_ID", principal |-> "UNKNOWN_PRINCIPAL",
   account |-> "UNKNOWN_ACCOUNT"]

\* TableName::new and #[derive(Default)] for TableName
TableName_new(sn, tn) == [schema_name |-> sn, table_name |-> tn]
TableName_default == TableName_new("", "")

\* Constraints::default: the empty summary map.
Constraints_default == [summary |-> <<>>]

\* #[derive(Default)] for Schema
Schema_default == [schema |-> <<>>, arrow_schema |-> [tag |-> "None"]]

\* #[derive(Default)] of the request types: every String is empty,
\* class_type included (serde's default attribute is no part of Default).
Request_default(variant) ==
  LET base == [variant |-> variant,
               identity |-> FederatedIdentity_default,
               query_id |-> "", catalog_name |-> "", class_type |-> ""]
  IN IF variant = "ListSchemasRequest" THEN base
     ELSE IF variant = "ListTablesRequest"
       THEN [schema_name |-> ""] @@ base
     ELSE IF variant = "GetTableRequest"
       THEN [table_name |-> TableName_default] @@ base
     ELSE [table_name |-> TableName_default,
           constraints |-> Constraints_default,
           schema |-> Schema_default,
           partition_cols |-> <<>>] @@ base

\* ListTablesRequest::new
ListTablesRequest_new(query_id, catalog_name, schema) ==
  [variant |-> "ListTablesRequest",
   identity |-> FederatedIdentity_default,
   query_id |-> query_id,
   catalog_name |-> catalog_name,
   schema_name |-> schema,
   class_type |-> "ListTablesRequest"]

\* GetTableRequest::new
GetTableRequest_new(catalog_name, schema_name, table_name) ==
  [variant |-> "GetTableRequest",
   identity |-> FederatedIdentity_default,
   catalog_name |-> catalog_name,
   query_id |-> "",
   table_name |-> TableName_new(schema_name, table_name),
   class_type |-> "GetTableRequest"]

\* GetTableLayoutRequest::new
GetTableLayoutRequest_new(query_id, catalog_name, table_name, constraints, schema, partition_cols) ==
  [variant |-> "GetTableLayoutRequest",
   identity |-> FederatedIdentity_default,
   query_id |-> query_id,
   catalog_name |-> catalog_name,
   table_name |-> table_name,
   constraints |-> constraints,
   schema |-> schema,
   partition_cols |-> partition_cols,
   class_type |-> class_type_def("GetTableLayoutRequest")]

\* GetSplitsRequest::new
GetSplitsRequest_new(query_id, catalog_name, table_name, partitions, partition_cols, constraints, continuation_token) ==
  [variant |-> "GetSplitsRequest",
   identity |-> FederatedIdentity_default,
   class_type |-> class_type_def("GetSplitsRequest"),
   query_id |-> query_id,
   catalog_name |-> catalog_name,
   table_name |-> table_name,
   partitions |-> partitions,
   partition_cols |-> partition_cols,
   constraints |-> constraints,
   continuation_token |-> continuation_token]

\* #[derive(Serialize)] of the model types, rename_all = "camelCase".
FederatedIdentity_serialize(i) ==
  JObj([id |-> JStr(i.id), principal |-> JStr(i.principal),
        account |-> JStr(i.account)])

TableName_serialize(n) ==
  JObj([schemaName |-> JStr(n.schema_name), tableName |-> JStr(n.table_name)])

Constraints_serialize(c) == JObj([summary |-> JObj(c.summary)])

StringVec_serialize(q) == JArr([i \in 1..Len(q) |-> JStr(q[i])])

\* The fields every request has; class_type is renamed "@type" on
\* serialization.
RequestHead_serialize(r) ==
  ("@type" :> JStr(r.class_type))
  @@ [identity |-> FederatedIdentity_serialize(r.identity),
      queryId |-> JStr(r.query_id),
      catalogName |-> JStr(r.catalog_name)]

\* GetSplitsRequest's continuation_token written as null when it is None.
ContinuationToken_serialize_null(r) ==
  [continuationToken |->
     IF r.continuation_token.tag = "None" THEN JNull
     ELSE JStr(r.continuation_token.v)]

\* #[serde(skip_serializing_if = "Option::is_none")] continuation_token:
\* the entries the field contributes to the object.
ContinuationToken_serialize(r) ==
  IF r.continuation_token.tag = "None" THEN <<>>
  ELSE [continuationToken |-> JStr(r.continuation_token.v)]

\* #[derive(Serialize)] of the request types
Request_serialize(r) ==
  IF r.variant = "ListSchemasRequest" THEN RequestHead_serialize(r)
  ELSE IF r.variant = "ListTablesRequest"
    THEN [schemaName |-> JStr(r.schema_name)] @@ RequestHead_serialize(r)
  ELSE IF r.variant = "GetTableRequest"
    THEN [tableName |-> TableName_serialize(r.table_name)]
         @@ RequestHead_serialize(r)
  ELSE IF r.variant = "GetTableLayoutRequest"
    THEN [tableName |-> TableName_serialize(r.table_name),
          constraints |-> Constraints_serialize(r.constraints),
          schema |-> JObj(SerializeSchema(r.schema)),
          partitionCols |-> StringVec_serialize(r.partition_cols)]
         @@ RequestHead_serialize(r)
  ELSE ContinuationToken_serialize(r)
       @@ [tableName |-> TableName_serialize(r.table_name),
           partitions |-> JObj(Block_serialize(r.partitions)),
           partitionCols |-> StringVec_serialize(r.partition_cols),
           constraints |-> Constraints_serialize(r.constraints)]
       @@ RequestHead_serialize(r)

\* serde's errors of a derived Deserialize.
MissingField(f) == [tag |-> "Err", kind |-> "missing field", field |-> f]
InvalidType(f) == [tag |-> "Err", kind |-> "invalid type", field |-> f]

\* The first of the fields, in declaration order, that the object lacks.
RECURSIVE FirstAbsent(_, _)
FirstAbsent(json, fields) ==
  IF fields = <<>> THEN None
  ELSE IF Head(fields) \in DOMAIN json THEN FirstAbsent(json, Tail(fields))
  ELSE Some(Head(fields))

\* Block::deserialize of the value under partitions; anything but an object
\* has no schema key.
Partitions_deserialize(j) ==
  IF j.t = "object" THEN Block_deserialize(j.v) ELSE DecodeErr

\* #[derive(Deserialize)] of the model types over well-typed values.
FederatedIdentity_deserialize(j) ==
  [id |-> j.v.id.v, principal |-> j.v.principal.v, account |-> j.v.account.v]

TableName_deserialize(j) == TableName_new(j.v.schemaName.v, j.v.tableName.v)

Constraints_deserialize(j) == [summary |-> j.v.summary.v]

StringVec_deserialize(j) == [i \in 1..Len(j.v) |-> j.v[i].v]

\* #[derive(Deserialize)] for Schema: arrow_schema is skipped only when
\* serializing, so an "arrowSchema" member is read into it; absent or null
\* it is None.  A typed schema is abstracted to its field type codes.
Schema_deserialize(j) ==
  [schema |-> j.v.schema.v,
   arrow_schema |-> IF "arrowSchema" \in DOMAIN j.v /\ j.v.arrowSchema.t = "object"
                      THEN Some(j.v.arrowSchema.v)
                    ELSE None]

\* #[derive(Clone)] for Schema: both fields are cloned.
Schema_clone(self) == self

\* #[derive(Deserialize)] for GetSplitsRequest.  The rename of class_type to
\* "@type" is for serialization only: the field is read from "classType",
\* and an "@type" key is an unknown field, which is ignored.  identity and
\* class_type have defaults, continuation_token is an Option.
GetSplitsRequest_required ==
  <<"queryId", "catalogName", "tableName", "partitions", "partitionCols",
    "constraints">>

GetSplitsRequest_deserialize(j) ==
  LET part == IF "partitions" \in DOMAIN j
                THEN Partitions_deserialize(j.partitions)
              ELSE None
      absent == FirstAbsent(j, GetSplitsRequest_required)
  IN IF IsPanic(part) THEN PANIC
     ELSE IF part.tag = "Err" THEN part
     ELSE IF "classType" \in DOMAIN j /\ ~IsJStr(j.classType)
       THEN InvalidType("classType")
     ELSE IF absent # None THEN MissingField(absent.v)
     ELSE [tag |-> "Ok",
           v |-> [variant |-> "GetSplitsRequest",
                  identity |-> IF "identity" \in DOMAIN j
                                 THEN FederatedIdentity_deserialize(j.identity)
                               ELSE FederatedIdentity_default,
                  class_type |-> IF "classType" \in DOMAIN j THEN j.classType.v
                                 ELSE class_type_def("GetSplitsRequest"),
                  query_id |-> j.queryId.v,
                  catalog_name |-> j.catalogName.v,
                  table_name |-> TableName_deserialize(j.tableName),
                  partitions |-> part.v,
                  partition_cols |-> StringVec_deserialize(j.partitionCols),
                  constraints |-> Constraints_deserialize(j.constraints),
                  continuation_token |->
                    IF "continuationToken" \in DOMAIN j
                       /\ IsJStr(j.continuationToken)
                      THEN Some(j.continuationToken.v)
                    ELSE None]]

\* The required fields of the response types, in declaration order.
Response_required(variant) ==
  IF variant = "ListSchemasResponse"
    THEN <<"catalogName", "requestType", "schemas">>
  ELSE IF variant = "ListTablesResponse"
    THEN <<"catalogName", "tables", "requestType">>
  ELSE IF variant = "GetTableResponse"
    THEN <<"catalogName", "tableName", "schema", "requestType">>
  ELSE IF variant = "GetTableLayoutResponse"
    THEN <<"requestType", "catalogName", "tableName", "partitions">>
  ELSE <<"requestType">>

Range(q) == {q[i] : i \in 1..Len(q)}

\* The decoded form of a response field.
ResponseField_deserialize(k, j) ==
  IF k = "partitions" THEN Partitions_deserialize(j).v
  ELSE IF k = "schema" THEN Schema_deserialize(j)
  ELSE IF k = "tableName" THEN TableName_deserialize(j)
  ELSE IF k = "schemas" THEN StringVec_deserialize(j)
  ELSE IF k = "tables" THEN [i \in 1..Len(j.v) |-> TableName_deserialize(j.v[i])]
  ELSE j.v

\* A response decode that refuses an "@type" other than the expected
\* variant's name.
Response_deserialize_checked(variant, j) ==
  LET absent == FirstAbsent(j, Response_required(variant))
  IN IF "@type" \in DOMAIN j /\ j["@type"] # JStr(class_type_def(variant))
       THEN [tag |-> "Err", kind |-> "unknown variant", field |-> "@type"]
     ELSE IF absent # None THEN MissingField(absent.v)
     ELSE [tag |-> "Ok",
           v |-> [variant |-> variant,
                  class_type |-> class_type_def(variant),
                  fields |-> [k \in Range(Response_required(variant)) |->
                                ResponseField_deserialize(k, j[k])]]]

\* #[derive(Deserialize)] of the response types: class_type is read from
\* "@type" and defaults to class_type_def(); the other fields are required;
\* unknown fields are ignored.  Errors of the values come before the
\* missing fields, which are found when the object has been read.
Response_deserialize(variant, j) ==
  LET part == IF variant = "GetTableLayoutResponse" /\ "partitions" \in DOMAIN j
                THEN Partitions_deserialize(j.partitions)
              ELSE None
      absent == FirstAbsent(j, Response_required(variant))
  IN IF IsPanic(part) THEN PANIC
     ELSE IF part.tag = "Err" THEN part
     ELSE IF "@type" \in DOMAIN j /\ ~IsJStr(j["@type"])
       THEN InvalidType("@type")
     ELSE IF absent # None THEN MissingField(absent.v)
     ELSE [tag |-> "Ok",
           v |-> [variant |-> variant,
                  class_type |-> IF "@type" \in DOMAIN j THEN j["@type"].v
                                 ELSE class_type_def(variant),
                  fields |-> [k \in Range(Response_required(variant)) |->
                                ResponseField_deserialize(k, j[k])]]]

(***************************************************************************)
(* models.rs: SpillLocation, EncryptionKey, Split                          *)
(***************************************************************************)
JBool(b) == [t |-> "bool", v |-> b]

\* The JSON object without members, and the empty HashMap.
EmptyObject == [k \in {} |-> JNull]

\* SpillLocation::class_type_def
SpillLocation_class_type_def == "S3SpillLocation"

\* #[derive(Deserialize)] for SpillLocation: "@type" has a default, the
\* other fields are required.
SpillLocation_deserialize(j) ==
  LET absent == FirstAbsent(j, <<"bucket", "key", "directory">>)
  IN IF absent # None THEN MissingField(absent.v)
     ELSE [tag |-> "Ok",
           v |-> [bucket |-> j.bucket.v, key |-> j.key.v,
                  directory |-> j.directory.v,
                  class_type |-> IF "@type" \in DOMAIN j THEN j["@type"].v
                                 ELSE SpillLocation_class_type_def]]

\* #[derive(Serialize)] for SpillLocation
SpillLocation_serialize(self) ==
  ("@type" :> JStr(self.class_type))
  @@ [bucket |-> JStr(self.bucket), key |-> JStr(self.key),
      directory |-> JBool(self.directory)]

\* #[derive(Deserialize)] for EncryptionKey {}: a struct without fields;
\* the members of the object are unknown fields and are ignored.
EncryptionKey_deserialize(j) == [unit |-> TRUE]

\* #[derive(Serialize)] for EncryptionKey {}: the object without members.
EncryptionKey_serialize(self) == JObj(EmptyObject)

\* #[derive(Deserialize)] for Split: encryption_key is an Option, absent
\* and null are None.
Split_deserialize(j) ==
  LET absent == FirstAbsent(j, <<"spillLocation", "properties">>)
      loc == IF "spillLocation" \in DOMAIN j
               THEN SpillLocation_deserialize(j.spillLocation.v)
             ELSE None
  IN IF loc.tag = "Err" THEN loc
     ELSE IF absent # None THEN MissingField(absent.v)
     ELSE [tag |-> "Ok",
           v |-> [spill_location |-> loc.v,
                  properties |-> [k \in DOMAIN j.properties.v |->
                                    j.properties.v[k].v],
                  encryption_key |->
                    IF "encryptionKey" \in DOMAIN j
                       /\ j.encryptionKey.t = "object"
                      THEN Some(EncryptionKey_deserialize(j.encryptionKey.v))
                    ELSE None]]

\* #[derive(Serialize)] for Split: no field is skipped, None is null.
Split_serialize(self) ==
  [spillLocation |-> JObj(SpillLocation_serialize(self.spill_location)),
   properties |-> JObj([k \in DOMAIN self.properties |->
                          JStr(self.properties[k])]),
   encryptionKey |-> IF self.encryption_key = None THEN JNull
                     ELSE EncryptionKey_serialize(self.encryption_key.v)]

\* Split::create
Split_create(bucket, key) ==
  [spill_location |-> [bucket |-> bucket, key |-> key, directory |-> TRUE,
                       class_type |-> SpillLocation_class_type_def],
   properties |-> EmptyObject,
   encryption_key |-> None]

(***************************************************************************)
(* api.rs: Configuration and Planner.  The LambdaClient is the transport:  *)
(* the Planner hands it an InvocationRequest and blocks for its outcome,   *)
(* an error, a response without payload, or a response with a payload.     *)
(***************************************************************************)
\* Configuration::new
Configuration_new(lambda) ==
  [record_lambda |-> lambda, metadata_lambda |-> lambda, region |-> "us-east-1"]

\* Planner::new; the region of Configuration::new parses.
Planner_new(c) == [config |-> c]

\* Planner::invoke up to client.invoke, clearing the function name it
\* used.
Planner_invoke_send_taking(self, body) ==
  [self |-> [self EXCEPT !.config.metadata_lambda = ""],
   request |-> [function_name |-> self.config.metadata_lambda,
                payload |-> Some(body)]]

\* Planner::invoke up to client.invoke(lambda_fun): the InvocationRequest
\* handed to the transport, and the Planner afterwards.
Planner_invoke_send(self, body) ==
  [self |-> self,
   request |-> [function_name |-> self.config.metadata_lambda,
                payload |-> Some(body)]]

\* A payload is a JSON object or bytes that are no JSON.
JsonPayload(j) == [kind |-> "json", v |-> j]
GarbagePayload == [kind |-> "garbage"]

\* Planner::invoke from result_future.sync() on: each of the three unwrap()
\* calls panics on its failure.
Planner_invoke_receive(variant, outcome) ==
  IF outcome.tag = "Err" THEN PANIC
  ELSE IF outcome.payload = None THEN PANIC
  ELSE IF outcome.payload.v.kind # "json" THEN PANIC
  ELSE LET r == Response_deserialize(variant, outcome.payload.v.v)
       IN IF IsPanic(r) \/ r.tag = "Err" THEN PANIC ELSE r

\* The operations of the Planner.  A call is a record of the operation and
\* the values its caller holds for it; an operation uses those its
\* signature takes.
Planner_operations ==
  {"list_schemas", "list_tables", "get_table", "get_table_layout", "get_splits"}

\* Whether the operation calls invoke: get_splits has an empty body.
Planner_invokes(op) == op # "get_splits"

\* The request the operation builds.
Planner_request(call) ==
  IF call.op = "list_schemas" THEN Request_default("ListSchemasRequest")
  ELSE IF call.op = "list_tables"
    THEN ListTablesRequest_new("", call.catalog_name, call.schema_name)
  ELSE IF call.op = "get_table"
    THEN GetTableRequest_new(call.catalog_name, call.schema_name, call.table_name)
  ELSE GetTableLayoutRequest_new("", call.catalog_name,
                                 TableName_new(call.schema_name, call.table_name),
                                 call.constraints, call.schema, call.partition_cols)

\* The response type the operation asks invoke for.
Planner_expects(op) ==
  IF op = "list_schemas" THEN "ListSchemasResponse"
  ELSE IF op = "list_tables" THEN "ListTablesResponse"
  ELSE IF op = "get_table" THEN "GetTableResponse"
  ELSE "GetTableLayoutResponse"

(***************************************************************************)
(* State.  One Block exchange: a carrier is decoded, the Block encoded,    *)
(* the encoding decoded again.                                             *)
(***************************************************************************)
MaxRounds == 3

VARIABLES
  helper,      \* the JSON value Block::deserialize was last given
  block,       \* its outcome: None before the first call, else Ok, Err, Panic
  wire,        \* the JSON value the last Block::serialize emitted
  origin,      \* the carrier the exchange started from
  first_wire,  \* the first JSON value Block::serialize emitted
  round        \* how many times the exchange has decoded

blockVars == <<helper, block, wire, origin, first_wire, round>>

(***************************************************************************)
(* State.  One Schema descriptor and the get_schema() calls made on it.    *)
(***************************************************************************)
MaxCalls == 3

VARIABLES
  sd,       \* the descriptor: None before it is created
  first,    \* the outcome of the first get_schema() call on it
  last,     \* the outcome of the latest get_schema() call on it
  calls,    \* how many get_schema() calls were made on it
  decodes,  \* how many base64 decodes those calls performed
  parses,   \* how many binary parses those calls performed
  sd_wire,  \* the JSON value the descriptor was last serialized to
  sd_origin \* how the descriptor was made, and whether it is a clone

schemaVars == <<sd, first, last, calls, decodes, parses, sd_wire, sd_origin>>

(***************************************************************************)
(* State.  One envelope: a request that is built or decoded and then       *)
(* serialized, or a response that is decoded.                              *)
(***************************************************************************)
VARIABLES
  req,       \* the request: None, or the outcome of building or decoding it
  req_in,    \* the JSON object the request was decoded from, if it was
  req_json,  \* the JSON object the request was serialized to
  resp_in,   \* the expected variant and the JSON object of a response decode
  resp       \* the outcome of the response decode

envelopeVars == <<req, req_in, req_json, resp_in, resp>>

(***************************************************************************)
(* State.  One Split or SpillLocation: built or decoded, then serialized.  *)
(***************************************************************************)
VARIABLES
  split_in,    \* the JSON object the value was decoded from, if it was
  split,       \* the outcome of building or decoding the value
  split_kind,  \* "Split" or "SpillLocation"
  split_json   \* the JSON object the value was serialized to

splitVars == <<split_in, split, split_kind, split_json>>

(***************************************************************************)
(* State.  One Planner and its caller.                                     *)
(***************************************************************************)
MaxOps == 2

VARIABLES
  pl_given,   \* the Configuration the Planner was made from (the caller's clone)
  pl_self,    \* the Planner
  pl_pc,      \* "idle", "waiting" (blocked in the transport), "returned", "aborted"
  pl_call,    \* the operation in progress or last called, with its arguments
  pl_sent,    \* the InvocationRequests of that operation, in order
  pl_reply,   \* the outcome the transport gave to that operation
  pl_result,  \* what the operation returned: a response, unit, or a panic
  pl_log      \* the calls so far, each with the requests it sent

plannerVars ==
  <<pl_given, pl_self, pl_pc, pl_call, pl_sent, pl_reply, pl_result, pl_log>>

vars == <<blockVars, schemaVars, envelopeVars, splitVars, plannerVars>>

InitBlock ==
  /\ helper = None
  /\ block = None
  /\ wire = None
  /\ origin = None
  /\ first_wire = None
  /\ round = 0

\* serde_json::from_str::<Block>(carrier)
Deserialize(c) ==
  /\ round = 0
  /\ helper' = Some(c)
  /\ origin' = Some(c)
  /\ block' = Block_deserialize(c)
  /\ round' = 1
  /\ UNCHANGED <<wire, first_wire>>
  /\ UNCHANGED <<schemaVars, envelopeVars, splitVars, plannerVars>>

\* serde_json::to_value(&block)
Serialize ==
  /\ block.tag = "Ok"
  /\ wire' = Some(Block_serialize(block.v))
  /\ first_wire' = IF first_wire = None THEN wire' ELSE first_wire
  /\ UNCHANGED <<helper, block, origin, round>>
  /\ UNCHANGED <<schemaVars, envelopeVars, splitVars, plannerVars>>

\* serde_json::from_value::<Block>(wire): the encoding is decoded again;
\* from_value takes the value.
DeserializeWire ==
  /\ wire # None
  /\ round < MaxRounds
  /\ helper' = wire
  /\ block' = Block_deserialize(wire.v)
  /\ round' = round + 1
  /\ wire' = None
  /\ UNCHANGED <<origin, first_wire>>
  /\ UNCHANGED <<schemaVars, envelopeVars, splitVars, plannerVars>>

NextBlock ==
  \/ \E c \in Carriers : Deserialize(c)
  \/ Serialize
  \/ DeserializeWire

InitSchema ==
  /\ sd = None
  /\ first = None
  /\ last = None
  /\ calls = 0
  /\ decodes = 0
  /\ parses = 0
  /\ sd_wire = None
  /\ sd_origin = None

\* The strings a descriptor is created from: any string a response or a
\* caller may hold.
EncodedStrings == SchemaStrings \cup RecordsStrings

\* Schema::new_from_string(s)
NewFromString(s) ==
  /\ sd = None
  /\ sd' = Some(new_from_string(s))
  /\ sd_origin' = [how |-> "new_from_string", cloned |-> FALSE]
  /\ UNCHANGED <<first, last, calls, decodes, parses, sd_wire>>
  /\ UNCHANGED <<blockVars, envelopeVars, splitVars, plannerVars>>

\* Schema::default(): the empty string, nothing decoded.
SchemaDefault ==
  /\ sd = None
  /\ sd' = Some([schema |-> <<>>, arrow_schema |-> None])
  /\ sd_origin' = [how |-> "default", cloned |-> FALSE]
  /\ UNCHANGED <<first, last, calls, decodes, parses, sd_wire>>
  /\ UNCHANGED <<blockVars, envelopeVars, splitVars, plannerVars>>

\* sd.get_schema(); after a panic the descriptor is not used again.
GetSchema ==
  /\ sd # None
  /\ last # PANIC
  /\ calls < MaxCalls
  /\ \E r \in {get_schema(sd.v)} :
       /\ sd' = IF IsPanic(r) THEN sd ELSE Some(r.self)
       /\ last' = IF IsPanic(r) THEN PANIC ELSE [tag |-> "Return", ret |-> r.ret]
       /\ decodes' = decodes + (IF IsPanic(r) THEN 1 ELSE r.decodes)
       /\ parses' = parses + (IF IsPanic(r) THEN 1 ELSE r.parses)
  /\ first' = IF calls = 0 THEN last' ELSE first
  /\ calls' = calls + 1
  /\ UNCHANGED <<sd_wire, sd_origin>>
  /\ UNCHANGED <<blockVars, envelopeVars, splitVars, plannerVars>>

\* serde_json::to_value(&sd)
SchemaSerialize ==
  /\ sd # None
  /\ last # PANIC
  /\ sd_wire' = Some(SerializeSchema(sd.v))
  /\ UNCHANGED <<sd, first, last, calls, decodes, parses, sd_origin>>
  /\ UNCHANGED <<blockVars, envelopeVars, splitVars, plannerVars>>

\* The Schema objects of a response: the schema string alone, or with an
\* arrowSchema member, null or a typed schema.
SchemaJsons ==
  LET strings == {EncodedSchema(f, <<97, 109, 0, 0>>, FALSE) : f \in ColumnSchemas}
                 \cup {<<>>}
  IN {JObj([schema |-> JStr(s)]) : s \in strings}
     \cup {JObj([schema |-> JStr(s), arrowSchema |-> a]) :
             s \in strings, a \in {JNull} \cup {JObj(f) : f \in ColumnSchemas}}

\* serde_json::from_str::<Schema>(j), as for the schema of a GetTableResponse
SchemaDeserialize(j) ==
  /\ sd = None
  /\ sd' = Some(Schema_deserialize(j))
  /\ sd_origin' = [how |-> "deserialize", cloned |-> FALSE]
  /\ UNCHANGED <<first, last, calls, decodes, parses, sd_wire>>
  /\ UNCHANGED <<blockVars, envelopeVars, splitVars, plannerVars>>

\* sd.clone(): the program goes on with the clone.
SchemaClone ==
  /\ sd # None
  /\ last # PANIC
  /\ ~sd_origin.cloned
  /\ sd' = Some(Schema_clone(sd.v))
  /\ sd_origin' = [sd_origin EXCEPT !.cloned = TRUE]
  /\ UNCHANGED <<first, last, calls, decodes, parses, sd_wire>>
  /\ UNCHANGED <<blockVars, envelopeVars, splitVars, plannerVars>>

NextSchema ==
  \/ \E s \in EncodedStrings : NewFromString(s)
  \/ SchemaDefault
  \/ \E j \in SchemaJsons : SchemaDeserialize(j)
  \/ SchemaClone
  \/ GetSchema
  \/ SchemaSerialize

InitEnvelope ==
  /\ req = None
  /\ req_in = None
  /\ req_json = None
  /\ resp_in = None
  /\ resp = None

\* The arguments callers pass and the values responses carry.
QueryIds == {"", "query_id"}
CatalogNames == {"", "catalog_name"}
SchemaNames == {"", "Martin"}
TableNameStrings == {"Grund"}
TableNames == {TableName_new(sn, tn) : sn \in SchemaNames, tn \in TableNameStrings}
PartitionCols == {<<>>, <<"log_stream">>}
ContinuationTokens == {None, Some("abc")}
RequestSchemas ==
  {new_from_string(EncodedSchema(<<5, 2, 5>>, n, FALSE)) : n \in NameTails}

\* Carriers of a partitions field: two that decode, one that is refused.
GoodPartitionCarriers ==
  {Carrier(JStr(EncodedSchema(f, <<97, 109, 0, 0>>, TRUE)),
           JStr(base64_encode(GoodRecordsBuffer(Len(f), 1))),
           JStr("52fb8f5f")) : f \in ColumnSchemas}

RefusedPartitionCarrier ==
  Carrier(JStr(base64_encode(Zeros(16))),
          JStr(base64_encode(GoodRecordsBuffer(3, 1))),
          JStr("52fb8f5f"))

PartitionBlocks == {Block_deserialize(c).v : c \in GoodPartitionCarriers}

Without(j, k) == [x \in DOMAIN j \ {k} |-> j[x]]

\* A GetSplitsRequest as JSON with every field, after the object of the
\* test json_get_split_request.
GetSplitsRequestJson(cols, carrier, ty) ==
  ("@type" :> JStr(ty))
  @@ [identity |-> FederatedIdentity_serialize(FederatedIdentity_default),
      queryId |-> JStr("query_id"),
      catalogName |-> JStr("catalog_name"),
      tableName |-> TableName_serialize(TableName_new("Martin", "Grund")),
      partitions |-> JObj(carrier),
      partitionCols |-> StringVec_serialize(cols),
      constraints |-> Constraints_serialize(Constraints_default),
      continuationToken |-> JStr("abc")]

FullGetSplitsRequestJsons ==
  {GetSplitsRequestJson(cols, carrier, ty) :
     cols \in PartitionCols,
     carrier \in GoodPartitionCarriers \cup {RefusedPartitionCarrier},
     ty \in {"GetSplitsRequest", "GetTableLayoutRequest"}}

GetSplitsRequestJsons ==
  FullGetSplitsRequestJsons
  \cup {Without(j, k) : j \in FullGetSplitsRequestJsons,
                        k \in {"@type", "identity", "queryId", "partitions",
                               "constraints", "continuationToken"}}
  \cup {[classType |-> JStr("Custom")] @@ j : j \in FullGetSplitsRequestJsons}

\* The response variants and a response of each as JSON.
ResponseVariants ==
  {"ListSchemasResponse", "ListTablesResponse", "GetTableResponse",
   "GetTableLayoutResponse", "GetSplitsResponse"}

ResponseJson(variant, ty, carrier) ==
  LET head == ("@type" :> ty)
              @@ [requestType |-> JStr(variant), catalogName |-> JStr("catalog_name")]
  IN IF variant = "ListSchemasResponse"
       THEN [schemas |-> StringVec_serialize(<<"Martin">>)] @@ head
     ELSE IF variant = "ListTablesResponse"
       THEN [tables |-> JArr(<<TableName_serialize(TableName_new("Martin", "Grund"))>>)]
            @@ head
     ELSE IF variant = "GetTableResponse"
       THEN [tableName |-> TableName_serialize(TableName_new("Martin", "Grund")),
             schema |-> JObj(SerializeSchema(
                          new_from_string(EncodedSchema(<<5, 2, 5>>,
                                                        <<97, 109, 0, 0>>, FALSE))))]
            @@ head
     ELSE IF variant = "GetTableLayoutResponse"
       THEN [tableName |-> TableName_serialize(TableName_new("Martin", "Grund")),
             partitions |-> JObj(carrier)]
            @@ head
     ELSE [splits |-> JArr(<<>>)] @@ head

\* The values found under "@type": the sender's type name, another type
\* name, any other string, a value that is no string.
TypeTags(variant) ==
  {JStr(variant), JStr("GetTableLayoutRequest"), JStr(""), JNumber}

FullResponseJsons ==
  {ResponseJson(variant, ty, carrier) :
     variant \in ResponseVariants,
     ty \in UNION {TypeTags(v) : v \in ResponseVariants},
     carrier \in GoodPartitionCarriers \cup {RefusedPartitionCarrier}}

ResponseJsons ==
  FullResponseJsons
  \cup {Without(j, k) : j \in FullResponseJsons,
                        k \in {"@type", "requestType", "catalogName", "tableName",
                               "partitions", "schema"}}

\* #[derive(Default)]: T::default() of a request type that derives it.
DefaultRequest(variant) ==
  /\ req = None /\ resp_in = None
  /\ req' = [tag |-> "Ok", v |-> Request_default(variant)]
  /\ UNCHANGED <<req_in, req_json, resp_in, resp>>
  /\ UNCHANGED <<blockVars, schemaVars, splitVars, plannerVars>>

NewListTablesRequest(q, c, sn) ==
  /\ req = None /\ resp_in = None
  /\ req' = [tag |-> "Ok", v |-> ListTablesRequest_new(q, c, sn)]
  /\ UNCHANGED <<req_in, req_json, resp_in, resp>>
  /\ UNCHANGED <<blockVars, schemaVars, splitVars, plannerVars>>

NewGetTableRequest(c, sn, tn) ==
  /\ req = None /\ resp_in = None
  /\ req' = [tag |-> "Ok", v |-> GetTableRequest_new(c, sn, tn)]
  /\ UNCHANGED <<req_in, req_json, resp_in, resp>>
  /\ UNCHANGED <<blockVars, schemaVars, splitVars, plannerVars>>

NewGetTableLayoutRequest(q, c, t, schema, cols) ==
  /\ req = None /\ resp_in = None
  /\ req' = [tag |-> "Ok",
             v |-> GetTableLayoutRequest_new(q, c, t, Constraints_default,
                                             schema, cols)]
  /\ UNCHANGED <<req_in, req_json, resp_in, resp>>
  /\ UNCHANGED <<blockVars, schemaVars, splitVars, plannerVars>>

NewGetSplitsRequest(q, c, t, partitions, cols, token) ==
  /\ req = None /\ resp_in = None
  /\ req' = [tag |-> "Ok",
             v |-> GetSplitsRequest_new(q, c, t, partitions, cols,
                                        Constraints_default, token)]
  /\ UNCHANGED <<req_in, req_json, resp_in, resp>>
  /\ UNCHANGED <<blockVars, schemaVars, splitVars, plannerVars>>

\* serde_json::from_str::<GetSplitsRequest>(j)
DeserializeGetSplitsRequest(j) ==
  /\ req = None /\ resp_in = None
  /\ req_in' = Some(j)
  /\ req' = GetSplitsRequest_deserialize(j)
  /\ UNCHANGED <<req_json, resp_in, resp>>
  /\ UNCHANGED <<blockVars, schemaVars, splitVars, plannerVars>>

\* serde_json::to_value(&req)
SerializeRequest ==
  /\ req.tag = "Ok"
  /\ req_json' = Some(Request_serialize(req.v))
  /\ UNCHANGED <<req, req_in, resp_in, resp>>
  /\ UNCHANGED <<blockVars, schemaVars, splitVars, plannerVars>>

\* serde_json::from_reader::<T>(payload) for a response type T
DeserializeResponse(variant, j) ==
  /\ req = None /\ resp_in = None
  /\ resp_in' = Some([variant |-> variant, json |-> j])
  /\ resp' = Response_deserialize(variant, j)
  /\ UNCHANGED <<req, req_in, req_json>>
  /\ UNCHANGED <<blockVars, schemaVars, splitVars, plannerVars>>

NextEnvelope ==
  \/ \E variant \in {"ListSchemasRequest", "ListTablesRequest",
                     "GetTableRequest", "GetTableLayoutRequest"} :
       DefaultRequest(variant)
  \/ \E q \in QueryIds, c \in CatalogNames, sn \in SchemaNames :
       NewListTablesRequest(q, c, sn)
  \/ \E c \in CatalogNames, sn \in SchemaNames, tn \in TableNameStrings :
       NewGetTableRequest(c, sn, tn)
  \/ \E q \in QueryIds, c \in CatalogNames, t \in TableNames,
        schema \in RequestSchemas, cols \in PartitionCols :
       NewGetTableLayoutRequest(q, c, t, schema, cols)
  \/ \E q \in QueryIds, c \in CatalogNames, t \in TableNames,
        partitions \in PartitionBlocks, cols \in PartitionCols,
        token \in ContinuationTokens :
       NewGetSplitsRequest(q, c, t, partitions, cols, token)
  \/ \E j \in GetSplitsRequestJsons : DeserializeGetSplitsRequest(j)
  \/ SerializeRequest
  \/ \E variant \in ResponseVariants, j \in ResponseJsons :
       DeserializeResponse(variant, j)

InitSplit ==
  /\ split_in = None
  /\ split = None
  /\ split_kind = "Split"
  /\ split_json = None

\* The function of the integration tests (tests/metadata_tests.rs).
LambdaArn == "arn:aws:lambda:us-east-1:269293906241:function:cwtest"

InitPlanner ==
  /\ pl_given = Configuration_new(LambdaArn)
  /\ pl_self = Planner_new(Configuration_new(LambdaArn))
  /\ pl_pc = "idle"
  /\ pl_call = None
  /\ pl_sent = <<>>
  /\ pl_reply = None
  /\ pl_result = None
  /\ pl_log = <<>>

Init == InitBlock /\ InitSchema /\ InitEnvelope /\ InitSplit /\ InitPlanner

SpecBlock == Init /\ [][NextBlock]_vars

SpecSchema == Init /\ [][NextSchema]_vars

SpecEnvelope == Init /\ [][NextEnvelope]_vars

(***************************************************************************)
(* Split and SpillLocation: inputs and actions                             *)
(***************************************************************************)
Buckets == {"magrund-ath-fed", ""}
Keys == {"athena-spill//e8300bd6", "k"}

\* A SpillLocation of the wire shape, after test_spill_location.
SpillLocationJson(bucket, key, directory) ==
  ("@type" :> JStr("S3SpillLocation"))
  @@ [bucket |-> JStr(bucket), key |-> JStr(key), directory |-> JBool(directory)]

SpillLocationJsons ==
  {SpillLocationJson(b, k, d) : b \in Buckets, k \in Keys, d \in BOOLEAN}

\* The values of encryptionKey: null, an object without members, an object
\* holding a key and a nonce.
EncryptionKeyJsons ==
  {JNull, JObj(EmptyObject),
   JObj([key |-> JStr("a2V5"), nonce |-> JStr("bm9uY2U=")])}

\* The values of properties, after test_split_serde.
PropertiesJsons ==
  {JObj(EmptyObject),
   JObj([log_group |-> JStr("/aws/lambda/cwtest"),
         log_stream_bytes |-> JStr("0")])}

SplitJsons ==
  {[spillLocation |-> JObj(l), encryptionKey |-> e, properties |-> pr] :
     l \in SpillLocationJsons, e \in EncryptionKeyJsons, pr \in PropertiesJsons}

\* Objects that lack a member: a sender that leaves "@type" or
\* encryptionKey out, a SpillLocation without its bucket.
PartialSpillLocationJsons ==
  {Without(l, k) : l \in SpillLocationJsons, k \in {"@type", "bucket"}}

PartialSplitJsons ==
  {Without(j, "encryptionKey") : j \in SplitJsons}
  \cup {[spillLocation |-> JObj(l), encryptionKey |-> JNull,
         properties |-> JObj(EmptyObject)] : l \in PartialSpillLocationJsons}

\* Split::create(bucket, key)
SplitCreate(bucket, key) ==
  /\ split = None
  /\ split' = [tag |-> "Ok", v |-> Split_create(bucket, key)]
  /\ split_kind' = "Split"
  /\ UNCHANGED <<split_in, split_json>>
  /\ UNCHANGED <<blockVars, schemaVars, envelopeVars, plannerVars>>

\* serde_json::from_str::<Split>(j)
DeserializeSplit(j) ==
  /\ split = None
  /\ split_in' = Some(j)
  /\ split' = Split_deserialize(j)
  /\ split_kind' = "Split"
  /\ UNCHANGED split_json
  /\ UNCHANGED <<blockVars, schemaVars, envelopeVars, plannerVars>>

\* serde_json::from_str::<SpillLocation>(j)
DeserializeSpillLocation(j) ==
  /\ split = None
  /\ split_in' = Some(j)
  /\ split' = SpillLocation_deserialize(j)
  /\ split_kind' = "SpillLocation"
  /\ UNCHANGED split_json
  /\ UNCHANGED <<blockVars, schemaVars, envelopeVars, plannerVars>>

\* serde_json::to_value(sl)
SerializeSplit ==
  /\ split.tag = "Ok"
  /\ split_json = None
  /\ split_json' = Some(IF split_kind = "Split" THEN Split_serialize(split.v)
                        ELSE SpillLocation_serialize(split.v))
  /\ UNCHANGED <<split_in, split, split_kind>>
  /\ UNCHANGED <<blockVars, schemaVars, envelopeVars, plannerVars>>

NextSplit ==
  \/ \E b \in Buckets, k \in Keys : SplitCreate(b, k)
  \/ \E j \in SplitJsons \cup PartialSplitJsons : DeserializeSplit(j)
  \/ \E j \in SpillLocationJsons \cup PartialSpillLocationJsons :
       DeserializeSpillLocation(j)
  \/ SerializeSplit

SpecSplit == Init /\ [][NextSplit]_vars

(***************************************************************************)
(* Planner: inputs and actions                                             *)
(***************************************************************************)
\* The partitions of the CloudWatch test vector: three columns, one row.
CloudWatchCarrier ==
  Carrier(JStr(EncodedSchema(<<5, 2, 5>>, <<97, 109, 0, 0>>, TRUE)),
          JStr(base64_encode(GoodRecordsBuffer(3, 1))),
          JStr("52fb8f5f"))

\* The calls of the integration tests: the operation and the values the
\* caller holds for it.
CallerValues ==
  {[query_id |-> "", catalog_name |-> "", continuation_token |-> None],
   [query_id |-> "query_id", catalog_name |-> "catalog_name",
    continuation_token |-> Some("abc")]}

Calls ==
  {[op |-> op, query_id |-> a.query_id, catalog_name |-> a.catalog_name,
    schema_name |-> "/aws/lambda/cwtest", table_name |-> "2019/11/16",
    constraints |-> Constraints_default,
    schema |-> new_from_string(EncodedSchema(<<5, 2, 5>>, <<97, 109, 0, 0>>, FALSE)),
    partition_cols |-> <<"log_stream">>,
    partitions |-> Block_deserialize(CloudWatchCarrier).v,
    continuation_token |-> a.continuation_token] :
     op \in Planner_operations, a \in CallerValues}

\* What the transport can give back: an error, a response without payload,
\* bytes that are no JSON, a response of any variant, a response that
\* lacks a field.
PlannerResponses ==
  LET full == {ResponseJson(variant, JStr(variant), CloudWatchCarrier) :
                 variant \in ResponseVariants}
  IN full \cup {Without(j, "catalogName") : j \in full}

Outcomes ==
  {[tag |-> "Err", error |-> "transport"],
   [tag |-> "Ok", payload |-> None],
   [tag |-> "Ok", payload |-> Some(GarbagePayload)]}
  \cup {[tag |-> "Ok", payload |-> Some(JsonPayload(j))] : j \in PlannerResponses}

\* list_schemas, list_tables, get_table, get_table_layout up to the
\* blocking client.invoke(..).sync() inside invoke.
Call(call) ==
  /\ pl_pc \in {"idle", "returned"}
  /\ Len(pl_log) < MaxOps
  /\ Planner_invokes(call.op)
  /\ \E snd \in {Planner_invoke_send(pl_self,
                                     Request_serialize(Planner_request(call)))} :
       /\ pl_self' = snd.self
       /\ pl_sent' = <<snd.request>>
       /\ pl_log' = Append(pl_log, [call |-> call, sent |-> <<snd.request>>])
  /\ pl_call' = Some(call)
  /\ pl_pc' = "waiting"
  /\ pl_reply' = None
  /\ pl_result' = None
  /\ UNCHANGED pl_given
  /\ UNCHANGED <<blockVars, schemaVars, envelopeVars, splitVars>>

\* get_splits: the body is empty, it returns at once.
CallGetSplits(call) ==
  /\ pl_pc \in {"idle", "returned"}
  /\ Len(pl_log) < MaxOps
  /\ ~Planner_invokes(call.op)
  /\ pl_call' = Some(call)
  /\ pl_sent' = <<>>
  /\ pl_log' = Append(pl_log, [call |-> call, sent |-> <<>>])
  /\ pl_pc' = "returned"
  /\ pl_reply' = None
  /\ pl_result' = [tag |-> "Unit"]
  /\ UNCHANGED <<pl_given, pl_self>>
  /\ UNCHANGED <<blockVars, schemaVars, envelopeVars, splitVars>>

\* The transport ends the blocking call and invoke runs to its end: the
\* operation returns the decoded response, or an unwrap() panics.
TransportReturns(outcome) ==
  /\ pl_pc = "waiting"
  /\ pl_reply' = Some(outcome)
  /\ \E r \in {Planner_invoke_receive(Planner_expects(pl_call.v.op), outcome)} :
       /\ pl_result' = r
       /\ pl_pc' = IF IsPanic(r) THEN "aborted" ELSE "returned"
  /\ UNCHANGED <<pl_given, pl_self, pl_call, pl_sent, pl_log>>
  /\ UNCHANGED <<blockVars, schemaVars, envelopeVars, splitVars>>

NextPlanner ==
  \/ \E call \in Calls : Call(call)
  \/ \E call \in Calls : CallGetSplits(call)
  \/ \E outcome \in Outcomes : TransportReturns(outcome)

SpecPlanner == Init /\ [][NextPlanner]_vars


(***************************************************************************)
(* Block codec: claims                                                     *)
(***************************************************************************)
\* C1: whenever a decoded Block has been encoded, the emitted object holds
\* under schema, records and aId exactly the strings of the carrier the
\* exchange started from, and every later encoding (after decoding the
\* emitted object again) equals the first one.
C1_EncodeEmitsOriginalStrings ==
  wire # None =>
    /\ DOMAIN wire.v = {"schema", "records", "aId"}
    /\ \A k \in {"schema", "records", "aId"} :
         k \in DOMAIN origin.v /\ wire.v[k] = origin.v[k]
    /\ wire = first_wire

\* C1 witness: the Block decoded from its own encoding has been encoded.
C1_Witness == round >= 2 /\ wire # None /\ block.tag = "Ok"

\* What makes a carrier's field unusable as a message: it is missing, no
\* string or no base64, or too short for the prefix, the size and the root
\* offset, or (records) states a body longer than the buffer.
FieldBytes(c, k) == decode_value(Get(c, k))

BadField(c, k) ==
  \/ FieldBytes(c, k).tag = "None"
  \/ Len(FieldBytes(c, k).v) < 12

BodyLengthInconsistent(c) ==
  /\ ~BadField(c, "records")
  /\ LET records == FieldBytes(c, "records").v
         rbuf    == SliceFrom(records, 4)
         fbs     == get_size_prefixed_root_as_message(rbuf)
         bl      == bodyLength(rbuf, fbs.loc)
     IN /\ ~IsPanic(bl)
        /\ bl.v < 0 \/ bl.v > Len(records)

Malformed(c) ==
  BadField(c, "schema") \/ BadField(c, "records") \/ BodyLengthInconsistent(c)

\* C2: decoding a carrier whose schema or records field is missing, no
\* string, no base64 or malformed returns the decode error: it neither
\* panics nor yields a Block.
C2_MalformedCarrierIsDecodeError ==
  (round >= 1 /\ Malformed(helper.v)) => block = DecodeErr

\* A carrier of the wire shape: a column schema in either framing, a record
\* batch of as many columns, a correlation id.
WellFormed(c, current) ==
  \E f \in ColumnSchemas, n \in NameTails, r \in 1..MaxRows :
    c = Carrier(JStr(EncodedSchema(f, n, current)),
                JStr(base64_encode(GoodRecordsBuffer(Len(f), r))),
                JStr("52fb8f5f"))

\* C3: a carrier whose schema is framed either way, with or without the
\* leading 4 bytes, decodes to a Block.
C3_BothFramingsDecode ==
  (round >= 1 /\ \E current \in BOOLEAN : WellFormed(helper.v, current))
    => block.tag = "Ok"

\* The part of C3 the code keeps: with the leading 4 bytes the schema
\* decodes.
CurrentFramingDecodes ==
  (round >= 1 /\ WellFormed(helper.v, TRUE)) => block.tag = "Ok"


(***************************************************************************)
(* Schema descriptor codec: claims                                         *)
(***************************************************************************)
\* C4: once a get_schema() call on a descriptor has returned a schema,
\* every later call returns that same schema, and the calls together have
\* done no base64 decode and no binary parse but the first call's (none at
\* all when the descriptor came with its decoded form).
C4_LaterCallsAreCacheHits ==
  (first.tag = "Return" /\ first.ret.tag = "Some") =>
    /\ last = first
    /\ sd.v.arrow_schema = first.ret
    /\ decodes <= 1
    /\ parses = decodes

\* C4 witness: a second call was made after a first that returned a schema.
C4_Witness == calls >= 2 /\ first.tag = "Return" /\ first.ret.tag = "Some"

\* C5: get_schema() on the legacy and on the current encoding of a column
\* schema both return that schema.
C5_BothEncodingsYieldTheSchema ==
  \A f \in ColumnSchemas, n \in NameTails, current \in BOOLEAN :
    (calls >= 1 /\ sd_origin.how = "new_from_string"
       /\ sd.v.schema = EncodedSchema(f, n, current))
      => last = [tag |-> "Return", ret |-> Some(f)]

\* The part of C5 the code keeps: the legacy encoding, and the current
\* encoding of a flatbuffer that ends in four zero bytes of padding.
LegacyEncodingYieldsTheSchema ==
  \A f \in ColumnSchemas, n \in NameTails :
    (calls >= 1 /\ sd_origin.how = "new_from_string"
       /\ sd.v.schema = EncodedSchema(f, n, FALSE))
      => last = [tag |-> "Return", ret |-> Some(f)]

\* An encoded string that holds no Schema message: no base64, fewer bytes
\* than the size prefix and the root offset take, or a message whose header
\* type is read at offset 0 and is neither NONE nor Schema.
HoldsNoSchema(s) ==
  LET res == base64_decode(s) IN
    \/ res.tag = "Err"
    \/ /\ res.tag = "Ok"
       /\ \/ Len(res.v) < 8
          \/ LET ht == header_type(res.v, get_size_prefixed_root_as_message(res.v).loc)
             IN ~IsPanic(ht) /\ ht.v \notin {MessageHeader_NONE, MessageHeader_Schema}

\* C6: get_schema() on a string that holds no Schema message returns "no
\* schema"; it does not panic.
C6_NoSchemaIsAValue ==
  (calls >= 1 /\ sd_origin.how # "deserialize" /\ HoldsNoSchema(sd.v.schema))
    => last = [tag |-> "Return", ret |-> None]


(***************************************************************************)
(* Envelope codec: claims                                                  *)
(***************************************************************************)
\* C7: every serialized request carries an "@type" field equal to the name
\* of its type, however the request was made.
C7_TypeTagIsTheVariantName ==
  req_json # None =>
    /\ "@type" \in DOMAIN req_json.v
    /\ req_json.v["@type"] = JStr(req.v.variant)

\* The part of C7 the code keeps: the requests made by a constructor.
ConstructedRequestsCarryTheirTypeName ==
  (req_json # None /\ req_in = None /\ req.v.class_type # "")
    => req_json.v["@type"] = JStr(req.v.variant)

\* The "@type" of a response object is absent or a string.
TypeTagAbsentOrString(j) == "@type" \in DOMAIN j => IsJStr(j["@type"])

\* Every required field of the variant is in the object, and its
\* partitions, if the variant has them, decode.
CarriesFieldsOf(variant, j) ==
  /\ \A k \in Range(Response_required(variant)) : k \in DOMAIN j
  /\ variant = "GetTableLayoutResponse"
       => Partitions_deserialize(j.partitions).tag = "Ok"

\* C8: a response decode does not fail because of "@type".  With the
\* variant's fields present it succeeds whether "@type" is absent or holds
\* any string, without comparing it to the expected variant; when "@type"
\* is absent the variant's own type name is stored; and a decode that
\* fails, fails with a missing field other than "@type" (or with the
\* Block's decode error).
C8_DecodeIgnoresTheTypeTag ==
  resp_in # None =>
    LET variant == resp_in.v.variant
        j == resp_in.v.json
    IN TypeTagAbsentOrString(j) =>
         /\ CarriesFieldsOf(variant, j) => resp.tag = "Ok"
         /\ (resp.tag = "Ok" /\ "@type" \notin DOMAIN j)
              => resp.v.class_type = variant
         /\ resp.tag = "Err" =>
              \/ /\ resp = DecodeErr
                 /\ variant = "GetTableLayoutResponse"
                 /\ "partitions" \in DOMAIN j
              \/ /\ resp.kind = "missing field"
                 /\ resp.field # "@type"
                 /\ resp.field \notin DOMAIN j

\* C8 witness: a response was decoded into a variant while its "@type"
\* named another type.
C8_Witness ==
  /\ resp_in # None
  /\ resp.tag = "Ok"
  /\ "@type" \in DOMAIN resp_in.v.json
  /\ IsJStr(resp_in.v.json["@type"])
  /\ resp_in.v.json["@type"] # JStr(resp_in.v.variant)

GetSplitsRequest_keys ==
  {"identity", "queryId", "catalogName", "tableName", "partitions",
   "partitionCols", "constraints", "continuationToken", "@type"}

\* C9: a GetSplitsRequest object with all of its fields and an "@type",
\* decoded and encoded again, is the object it was decoded from.
C9_GetSplitsRequestRoundTrip ==
  (req_in # None /\ req_json # None /\ DOMAIN req_in.v = GetSplitsRequest_keys)
    => req_json.v = req_in.v

\* The part of C9 the code keeps: every field but "@type" comes back.
GetSplitsRequestFieldsRoundTrip ==
  (req_in # None /\ req_json # None /\ DOMAIN req_in.v = GetSplitsRequest_keys)
    => Without(req_json.v, "@type") = Without(req_in.v, "@type")

\* C10: a serialized GetSplitsRequest has no continuationToken key when its
\* token is absent, and has the key with the token as its value when the
\* token is present.
C10_AbsentTokenIsOmitted ==
  (req_json # None /\ req.v.variant = "GetSplitsRequest") =>
    IF req.v.continuation_token = None
      THEN "continuationToken" \notin DOMAIN req_json.v
    ELSE /\ "continuationToken" \in DOMAIN req_json.v
         /\ req_json.v.continuationToken = JStr(req.v.continuation_token.v)

\* C10 witness: a GetSplitsRequest without a token has been serialized.
C10_Witness ==
  /\ req_json # None
  /\ req.v.variant = "GetSplitsRequest"
  /\ req.v.continuation_token = None


(***************************************************************************)
(* Split and SpillLocation: claims                                         *)
(***************************************************************************)
\* C11: a Split or SpillLocation JSON value of the wire shape, decoded and
\* encoded again, is the value it was decoded from; and a Split created
\* from a bucket and key serializes a spillLocation whose "@type" is
\* "S3SpillLocation".
C11_SplitRoundTrip ==
  split_json # None =>
    /\ (split_in # None /\ split_kind = "SpillLocation"
          /\ split_in.v \in SpillLocationJsons)
         => split_json.v = split_in.v
    /\ (split_in # None /\ split_kind = "Split" /\ split_in.v \in SplitJsons)
         => split_json.v = split_in.v
    /\ (split_in = None)
         => split_json.v.spillLocation.v["@type"] = JStr("S3SpillLocation")

\* The part of C11 the code keeps: everything but the members of an
\* encryptionKey object comes back, and a created Split carries the tag.
SplitRoundTripButEncryptionKey ==
  split_json # None =>
    /\ (split_in # None /\ split_kind = "SpillLocation"
          /\ split_in.v \in SpillLocationJsons)
         => split_json.v = split_in.v
    /\ (split_in # None /\ split_kind = "Split" /\ split_in.v \in SplitJsons)
         => /\ Without(split_json.v, "encryptionKey")
                 = Without(split_in.v, "encryptionKey")
            /\ split_json.v.encryptionKey.t = split_in.v.encryptionKey.t
    /\ (split_in = None)
         => split_json.v.spillLocation.v["@type"] = JStr("S3SpillLocation")


C13_OneRoundTripPerOperation ==
  pl_call # None => Len(pl_sent) = 1

\* The part of C13 the code keeps: the operations other than get_splits.
InvokingOperationsInvokeOnce ==
  (pl_call # None /\ pl_call.v.op # "get_splits") => Len(pl_sent) = 1

\* The transport failed, gave no payload, or gave a payload that does not
\* decode into the response type the operation expects.
OutcomeFails(op, outcome) ==
  \/ outcome.tag = "Err"
  \/ outcome.payload = None
  \/ outcome.payload.v.kind # "json"
  \/ Response_deserialize(Planner_expects(op), outcome.payload.v.v).tag # "Ok"

\* C14: when the transport fails, returns no payload, or returns a payload
\* that does not decode into the expected variant, the operation returns
\* that failure to its caller as an error value; it does not abort.
C14_FailuresAreReturnedAsErrors ==
  (pl_reply # None /\ OutcomeFails(pl_call.v.op, pl_reply.v))
    => (pl_pc = "returned" /\ pl_result.tag = "Err")

\* What the code does instead: every such failure is a panic.
FailuresAbort ==
  (pl_reply # None /\ OutcomeFails(pl_call.v.op, pl_reply.v))
    => (pl_pc = "aborted" /\ IsPanic(pl_result))

\* C15: get_splits sends one GetSplitsRequest carrying the query id,
\* catalog, table, partitions, partition columns, constraints and
\* continuation token of its caller, and returns the response's splits.
C15_GetSplitsSendsTheRequest ==
  (pl_call # None /\ pl_call.v.op = "get_splits" /\ pl_pc = "returned") =>
    /\ Len(pl_sent) = 1
    /\ pl_sent[1].payload.v =
         Request_serialize(
           GetSplitsRequest_new(pl_call.v.query_id, pl_call.v.catalog_name,
                                TableName_new(pl_call.v.schema_name,
                                              pl_call.v.table_name),
                                pl_call.v.partitions, pl_call.v.partition_cols,
                                pl_call.v.constraints,
                                pl_call.v.continuation_token))
    /\ pl_result.tag = "Ok"

\* C16: the request an operation sends carries the default identity and
\* the catalog name, schema name, table name and query id its caller
\* holds for it.
C16_RequestCarriesTheCallersValues ==
  (pl_call # None /\ pl_sent # <<>>) =>
    LET call == pl_call.v
        body == pl_sent[1].payload.v
    IN /\ body.identity = FederatedIdentity_serialize(FederatedIdentity_default)
       /\ body.catalogName = JStr(call.catalog_name)
       /\ call.op = "list_tables" => body.schemaName = JStr(call.schema_name)
       /\ call.op \in {"get_table", "get_table_layout"}
            => body.tableName
                 = TableName_serialize(TableName_new(call.schema_name,
                                                     call.table_name))
       /\ call.op = "get_table_layout" => body.queryId = JStr(call.query_id)

\* The part of C16 the code keeps: the identity, and the names the
\* operations have parameters for.
RequestCarriesThePassedValues ==
  (pl_call # None /\ pl_sent # <<>>) =>
    LET call == pl_call.v
        body == pl_sent[1].payload.v
    IN /\ body.identity = FederatedIdentity_serialize(FederatedIdentity_default)
       /\ call.op # "list_schemas" => body.catalogName = JStr(call.catalog_name)
       /\ call.op = "list_tables" => body.schemaName = JStr(call.schema_name)
       /\ call.op \in {"get_table", "get_table_layout"}
            => body.tableName
                 = TableName_serialize(TableName_new(call.schema_name,
                                                     call.table_name))

\* C17: after any sequence of operations the Planner's configuration is the
\* one it was made from, every request went to its metadata function, and
\* two calls of the same operation with the same arguments sent the same
\* requests, whatever was called and answered in between.
C17_PlannerKeepsNoState ==
  /\ pl_self.config = pl_given
  /\ \A i \in DOMAIN pl_log :
       \A k \in DOMAIN pl_log[i].sent :
         pl_log[i].sent[k].function_name = pl_given.metadata_lambda
  /\ \A i, j \in DOMAIN pl_log :
       pl_log[i].call = pl_log[j].call => pl_log[i].sent = pl_log[j].sent

\* C17 witness: the same call was made twice, the first was answered, and
\* both sent a request.
C17_Witness ==
  /\ Len(pl_log) = 2
  /\ pl_log[1].call = pl_log[2].call
  /\ pl_log[1].sent # <<>>
  /\ pl_pc = "returned"
  /\ pl_result.tag = "Ok"


(***************************************************************************)
(* Schema descriptor: the decoded form is a cache of the encoded string    *)
(***************************************************************************)
\* What decoding the encoded string s yields: Some typed schema, None, or
\* a panic.
DecodedFormOf(s) ==
  LET r == get_schema(new_from_string(s))
  IN IF IsPanic(r) THEN PANIC ELSE r.ret

\* C18: in every reachable state of a descriptor, however it was made, its
\* decoded form is absent or is what decoding its own encoded string
\* yields, and its serialization is the encoded string alone.
C18_DecodedIsCacheOfEncoded ==
  sd # None =>
    /\ sd.v.arrow_schema.tag = "Some"
         => DecodedFormOf(sd.v.schema) = sd.v.arrow_schema
    /\ sd_wire # None => sd_wire.v = [k \in {"schema"} |-> JStr(sd.v.schema)]

\* The part of C18 the code keeps: descriptors that were not decoded from
\* JSON, and the serialization of all.
MadeDescriptorsCacheTheirEncoding ==
  sd # None =>
    /\ (sd_origin.how # "deserialize" /\ sd.v.arrow_schema.tag = "Some")
         => DecodedFormOf(sd.v.schema) = sd.v.arrow_schema
    /\ sd_wire # None => sd_wire.v = [k \in {"schema"} |-> JStr(sd.v.schema)]

\* Also kept: a decoded form, once present, never changes.
DecodedFormNeverChanges ==
  [][(sd # None /\ sd.v.arrow_schema.tag = "Some")
       => sd'.v.arrow_schema = sd.v.arrow_schema]_vars


(***************************************************************************)
(* Block decode: the body offset and the correlation id                    *)
(***************************************************************************)
\* The carrier's schema is a column schema in the current framing.
HasCurrentSchema(c) ==
  \E f \in ColumnSchemas, n \in NameTails :
    Get(c, "schema") = Some(JStr(EncodedSchema(f, n, TRUE)))

\* The records message, read behind the first 4 bytes, states a body
\* longer than the whole records buffer.
BodyLongerThanBuffer(c) ==
  /\ ~BadField(c, "records")
  /\ LET records == FieldBytes(c, "records").v
         rbuf    == SliceFrom(records, 4)
         fbs     == get_size_prefixed_root_as_message(rbuf)
         bl      == bodyLength(rbuf, fbs.loc)
     IN ~IsPanic(bl) /\ bl.v > Len(records)

\* The columns of the decoded table are cut, in order, from the last
\* bodyLength bytes of the whole records buffer.
BodyIsTheTailOfTheBuffer ==
  (round >= 1 /\ block.tag = "Ok") =>
    LET records == FieldBytes(helper.v, "records").v
        rbuf    == SliceFrom(records, 4)
        bl      == bodyLength(rbuf, get_size_prefixed_root_as_message(rbuf).loc).v
        body    == SliceFrom(records, Len(records) - bl)
        t       == block.v.records
    IN \A i \in 1..Len(t.columns) :
         t.columns[i] = SubSeq(body, (i - 1) * t.num_rows + 1, i * t.num_rows)

\* C19: the records header is read behind the first 4 bytes and the body is
\* the last bodyLength bytes of the whole records buffer; a bodyLength
\* greater than the length of the records buffer is a decode error, not an
\* out-of-range slice.
C19_BodyOffsetWithoutWrapAround ==
  /\ BodyIsTheTailOfTheBuffer
  /\ (round >= 1 /\ HasCurrentSchema(helper.v) /\ BodyLongerThanBuffer(helper.v))
       => block = DecodeErr

\* The carrier's schema and records are a column schema in the current
\* framing and a record batch of as many columns.
HasValidSchemaAndRecords(c) ==
  \E f \in ColumnSchemas, n \in NameTails, r \in 1..MaxRows :
    /\ Get(c, "schema") = Some(JStr(EncodedSchema(f, n, TRUE)))
    /\ Get(c, "records") = Some(JStr(base64_encode(GoodRecordsBuffer(Len(f), r))))

\* C20: decoding a carrier with valid schema and records whose aId is
\* absent or no string returns the decode error; it neither panics nor
\* builds a Block.
C20_MissingCorrelationIdIsDecodeError ==
  (round >= 1 /\ HasValidSchemaAndRecords(helper.v)
     /\ ("aId" \notin DOMAIN helper.v \/ ~IsJStr(helper.v.aId)))
    => block = DecodeErr

\* What the code keeps of C20: no Block is built without a correlation id.
NoBlockWithoutCorrelationId ==
  (round >= 1 /\ ("aId" \notin DOMAIN helper.v \/ ~IsJStr(helper.v.aId)))
    => block.tag # "Ok"

====
